---- MODULE Spec2Model ----
(***************************************************************************)
(* Model of dnskeytool/dnssec.py: KeyFile (one parsed DNSSEC key file) and *)
(* DnsSec (the key directory and the two external BIND tools).             *)
(*                                                                         *)
(* Text is modelled as a sequence of atoms: single characters wherever the *)
(* code looks at characters (digits, "+", ".", the trailing ","), whole    *)
(* keywords elsewhere.  A datetime is a number of ticks, Res ticks to the  *)
(* second; the 14-character YYYYMMDDHHMMSS token is the 14-digit decimal   *)
(* count of whole seconds.                                                 *)
(***************************************************************************)
EXTENDS Integers, Sequences, FiniteSets, TLC

VARIABLES disk, key, ref, op, ret, calls, steps

vars == <<disk, key, ref, op, ret, calls, steps>>

\* ------------------------------------------------------------- bounds
\* ticks per second (datetime resolution, scaled down from microseconds)
Res == 2
\* whole seconds a key file's timestamps range over
MaxSec == 3
\* lines of a key file in the construction specification
MaxLines == 2
\* operations in a row on the key directory in the writing specification
MaxOps == 2

\* ------------------------------------------------------------ values
\* Python's None, for an unset datetime
None == -1
\* the string "Inconsistent Dates" returned by next_change
InconsistentDates == -2
\* len("yyyymmddhhmmss")
DateLen == 14
\* the widths of {algo:3d} and {keyid:5d} in sort_key
AlgoWidth == 3
KeyIdWidth == 5

Ticks == 0 .. ((MaxSec + 1) * Res - 1)
Seconds == 0 .. MaxSec

\* ------------------------------------------------------ text helpers
\* a word that the code treats as a whole
Word(a) == <<a>>

Min(S) == CHOOSE x \in S : \A y \in S : x <= y

SeqRange(s) == {s[i] : i \in 1 .. Len(s)}

DigitAtoms == <<"0", "1", "2", "3", "4", "5", "6", "7", "8", "9">>

IsDigit(a) == a \in SeqRange(DigitAtoms)

DigitVal(a) == (CHOOSE i \in 1 .. 10 : DigitAtoms[i] = a) - 1

RECURSIVE Digits(_)
\* the decimal digits of n >= 0, as "%d" prints them
Digits(n) == IF n < 10 THEN <<DigitAtoms[n + 1]>>
             ELSE Append(Digits(n \div 10), DigitAtoms[(n % 10) + 1])

RECURSIVE PadLeft(_, _, _)
PadLeft(s, w, a) == IF Len(s) >= w THEN s ELSE PadLeft(<<a>> \o s, w, a)

RECURSIVE DigitsValue(_)
DigitsValue(s) == IF s = <<>> THEN 0
                  ELSE 10 * DigitsValue(SubSeq(s, 1, Len(s) - 1)) + DigitVal(s[Len(s)])

\* int(s) succeeds: an optional sign and at least one digit
IntOk(s) ==
    LET body == IF s # <<>> /\ s[1] = "-" THEN Tail(s) ELSE s
    IN  body # <<>> /\ \A i \in 1 .. Len(body) : IsDigit(body[i])

\* int(s)
Int_(s) == IF s[1] = "-" THEN 0 - DigitsValue(Tail(s)) ELSE DigitsValue(s)

\* ------------------------------------------------------------- dates
\* date.strftime("%Y%m%d%H%M%S"): whole seconds, 14 digits, sub-second part dropped
date_str(date) == PadLeft(Digits(date \div Res), DateLen, "0")

\* the checks of date_part: a third word of 14 characters that strptime accepts
date_part_ok(words) ==
    /\ Len(words) >= 3
    /\ Len(words[3]) = DateLen
    /\ \A i \in 1 .. Len(words[3]) : IsDigit(words[3][i])

\* datetime.strptime(words[2], "%Y%m%d%H%M%S")
date_part(words) == DigitsValue(words[3]) * Res

\* ---------------------------------------------------- KeyFile queries
Reached(d, t) == d # None /\ d <= t

state_mutant(k, t) ==
    IF Reached(k.d_publish, t) THEN "PUB"
    ELSE IF Reached(k.d_active, t) THEN "ACT"
    ELSE IF Reached(k.d_inactive, t) THEN "INAC"
    ELSE IF Reached(k.d_delete, t) THEN "DEL"
    ELSE IF k.d_create # None /\ k.d_create > t THEN "FUT"
    ELSE ""

state_mutant_flipped(k, t) ==
    IF k.d_delete # None /\ k.d_delete >= t THEN "DEL"
    ELSE IF k.d_inactive # None /\ k.d_inactive <= t THEN "INAC"
    ELSE IF k.d_active # None /\ k.d_active <= t THEN "ACT"
    ELSE IF k.d_publish # None /\ k.d_publish <= t THEN "PUB"
    ELSE IF k.d_create # None /\ k.d_create > t THEN "FUT"
    ELSE ""

\* KeyFile.state(ref)
state(k, t) ==
    IF k.d_delete # None /\ k.d_delete <= t THEN "DEL"
    ELSE IF k.d_inactive # None /\ k.d_inactive <= t THEN "INAC"
    ELSE IF k.d_active # None /\ k.d_active <= t THEN "ACT"
    ELSE IF k.d_publish # None /\ k.d_publish <= t THEN "PUB"
    ELSE IF k.d_create # None /\ k.d_create > t THEN "FUT"
    ELSE ""

RECURSIVE Filter(_, _)
\* list(filter(lambda x: x is not None, s)) and filter(lambda x: x > ref, s)
Filter(s, lo) == IF s = <<>> THEN <<>>
                 ELSE IF s[1] > lo THEN <<s[1]>> \o Filter(Tail(s), lo)
                 ELSE Filter(Tail(s), lo)

RECURSIVE Insert(_, _)
Insert(x, s) == IF s = <<>> THEN <<x>>
                ELSE IF x < s[1] THEN <<x>> \o s
                ELSE <<s[1]>> \o Insert(x, Tail(s))

RECURSIVE sorted(_)
\* sorted(s): stable, ascending
sorted(s) == IF s = <<>> THEN <<>>
             ELSE Insert(s[Len(s)], sorted(SubSeq(s, 1, Len(s) - 1)))

\* next(filter(lambda x: x > ref, assigned), None)
FirstAfter(assigned, t) ==
    LET later == Filter(assigned, t)
    IN  IF later = <<>> THEN None ELSE later[1]

next_change_mutant_ge(k, t) ==
    LET assigned == Filter(<<k.d_publish, k.d_active, k.d_inactive, k.d_delete>>, None)
    IN  IF sorted(assigned) = assigned THEN FirstAfter(assigned, t - 1)
        ELSE InconsistentDates

next_change_mutant_adjacent(k, t) ==
    LET all == <<k.d_publish, k.d_active, k.d_inactive, k.d_delete>>
        assigned == Filter(all, None)
    IN  IF \A i \in 1 .. 3 : (all[i] # None /\ all[i + 1] # None) => all[i] <= all[i + 1]
        THEN FirstAfter(assigned, t)
        ELSE InconsistentDates

\* KeyFile.next_change(ref)
next_change(k, t) ==
    LET assigned == Filter(<<k.d_publish, k.d_active, k.d_inactive, k.d_delete>>, None)
        expected_order == sorted(assigned)
    IN  IF expected_order = assigned THEN FirstAfter(assigned, t)
        ELSE InconsistentDates

\* ------------------------------------------------- KeyFile.__init__
RECURSIVE Split(_, _)
\* s.split(sep) for a one-character separator
Split(s, sep) ==
    IF \A i \in 1 .. Len(s) : s[i] # sep THEN <<s>>
    ELSE LET i == Min({j \in 1 .. Len(s) : s[j] = sep})
         IN  <<SubSeq(s, 1, i - 1)>> \o Split(SubSeq(s, i + 1, Len(s)), sep)

\* an exception raised at a line of dnssec.py
Raise(err, at) == [ok |-> FALSE, err |-> err, at |-> at]

Ok(k) == [ok |-> TRUE, key |-> k]

\* "word" in line, for a keyword without blanks
InLine(words, word) ==
    \E i \in 1 .. Len(words) : \E j \in 1 .. Len(words[i]) : words[i][j] = word

\* "This is a " in line
ThisIsAInLine(words) ==
    \E i \in 1 .. Len(words) - 3 :
        /\ words[i] # <<>> /\ words[i][Len(words[i])] = "This"
        /\ words[i + 1] = <<"is">>
        /\ words[i + 2] = <<"a">>

\* line.startswith(";")
IsComment(words) == words # <<>> /\ words[1] # <<>> /\ words[1][1] = ";"

\* s[:-1]
DropLast(s) == IF s = <<>> THEN s ELSE SubSeq(s, 1, Len(s) - 1)

\* one date-bearing comment line: self.<field> = date_part(line)
ReadDate(k, field, words) ==
    IF Len(words) < 3 THEN Raise("IndexError", 10)
    ELSE IF ~date_part_ok(words) THEN Raise("ValueError", IF Len(words[3]) # DateLen THEN 12 ELSE 13)
    ELSE Ok([k EXCEPT ![field] = date_part(words)])

ReadDescription_mutant(k, words) ==
    IF Len(words) < 5 THEN Raise("IndexError", 55)
    ELSE IF words[5] # <<"zone-signing">> /\ words[5] # <<"key-signing">>
    THEN Raise("ValueError", 60)
    ELSE Ok([k EXCEPT !.type = IF words[5] = <<"zone-signing">> THEN "ZSK" ELSE "KSK"])

\* the descriptive comment line: key type and the identity cross-check
ReadDescription(k, words) ==
    IF Len(words) < 5 THEN Raise("IndexError", 55)
    ELSE IF words[5] # <<"zone-signing">> /\ words[5] # <<"key-signing">>
    THEN Raise("ValueError", 60)
    ELSE IF Len(words) < 8 THEN Raise("IndexError", 61)
    ELSE IF ~IntOk(DropLast(words[8])) THEN Raise("ValueError", 61)
    ELSE IF k.keyid # Int_(DropLast(words[8])) THEN Raise("ValueError", 62)
    ELSE IF k.zone # words[Len(words)] THEN Raise("ValueError", 64)
    ELSE Ok([k EXCEPT !.type = IF words[5] = <<"zone-signing">> THEN "ZSK" ELSE "KSK"])

\* the body of the loop over key.readlines()
ReadLine(k, words) ==
    IF ~IsComment(words) THEN Ok(k)
    ELSE IF InLine(words, "Created:") THEN ReadDate(k, "d_create", words)
    ELSE IF InLine(words, "Publish:") THEN ReadDate(k, "d_publish", words)
    ELSE IF InLine(words, "Activate:") THEN ReadDate(k, "d_active", words)
    ELSE IF InLine(words, "Inactive:") THEN ReadDate(k, "d_inactive", words)
    ELSE IF InLine(words, "Delete:") THEN ReadDate(k, "d_delete", words)
    ELSE IF ThisIsAInLine(words) /\ InLine(words, "keyid") /\ InLine(words, "for")
    THEN ReadDescription(k, words)
    ELSE Ok(k)

RECURSIVE ReadLines(_, _)
\* for line in key.readlines(): the first exception ends the construction
ReadLines(k, lines) ==
    IF lines = <<>> THEN Ok(k)
    ELSE LET r == ReadLine(k, lines[1])
         IN  IF r.ok THEN ReadLines(r.key, Tail(lines)) ELSE r

\* KeyFile(path) for a file named stem + ".key" holding lines
KeyFile(stem, lines) ==
    LET ff == Split(stem, "+")
    IN  IF Len(ff) < 2 THEN Raise("IndexError", 31)
        ELSE IF ~IntOk(ff[2]) THEN Raise("ValueError", 31)
        ELSE IF Len(ff) < 3 THEN Raise("IndexError", 32)
        ELSE IF ~IntOk(ff[3]) THEN Raise("ValueError", 32)
        ELSE ReadLines([name |-> stem,
                        zone |-> IF ff[1] = <<>> THEN <<>> ELSE Tail(ff[1]),
                        algo |-> Int_(ff[2]),
                        keyid |-> Int_(ff[3]),
                        type |-> "",
                        d_create |-> None, d_publish |-> None, d_active |-> None,
                        d_inactive |-> None, d_delete |-> None],
                       lines)

\* KeyFile(self.path / (stem + ".key")) in directory d; a missing file fails in path.owner()
OpenKeyFile(d, stem) ==
    IF stem \notin DOMAIN d THEN Raise("FileNotFoundError", 26)
    ELSE KeyFile(stem, d[stem].lines)

\* ------------------------------------------------------------ sorting
\* ord(c) for the characters that occur in sort keys
Ord(a) ==
    CASE a = " " -> 32
      [] a = "*" -> 42
      [] a = "+" -> 43
      [] a = "-" -> 45
      [] a = "." -> 46
      [] IsDigit(a) -> 48 + DigitVal(a)
      [] a = "K" -> 75
      [] a = "S" -> 83
      [] a = "Z" -> 90
      [] a = "a" -> 97
      [] a = "b" -> 98
      [] a = "s" -> 115

RECURSIVE StrLess(_, _)
\* x < y on str
StrLess(x, y) ==
    IF y = <<>> THEN FALSE
    ELSE IF x = <<>> THEN TRUE
    ELSE IF x[1] # y[1] THEN Ord(x[1]) < Ord(y[1])
    ELSE StrLess(Tail(x), Tail(y))

\* "%d"
FormatInt(n) == IF n < 0 THEN <<"-">> \o Digits(0 - n) ELSE Digits(n)

\* the characters of self.type
TypeChars(type) ==
    CASE type = "ZSK" -> <<"Z", "S", "K">>
      [] type = "KSK" -> <<"K", "S", "K">>
      [] OTHER -> <<>>

sort_key_mutant(k) ==
    k.zone \o <<"+">> \o TypeChars(k.type) \o <<"+">> \o FormatInt(k.algo)
        \o <<"+">> \o FormatInt(k.keyid)

\* KeyFile.sort_key
sort_key(k) ==
    k.zone \o <<"+">> \o TypeChars(k.type)
        \o <<"+">> \o PadLeft(FormatInt(k.algo), AlgoWidth, " ")
        \o <<"+">> \o PadLeft(FormatInt(k.keyid), KeyIdWidth, " ")

RECURSIVE InsertByKey(_, _)
InsertByKey(k, s) ==
    IF s = <<>> THEN <<k>>
    ELSE IF StrLess(sort_key(k), sort_key(s[1])) THEN <<k>> \o s
    ELSE <<s[1]>> \o InsertByKey(k, Tail(s))

RECURSIVE SortedByKey(_)
\* sorted(result, key=KeyFile.sort_key): stable
SortedByKey(s) ==
    IF s = <<>> THEN <<>>
    ELSE InsertByKey(s[Len(s)], SortedByKey(SubSeq(s, 1, Len(s) - 1)))

\* ------------------------------------------------------------- DnsSec
RECURSIVE fnmatch(_, _)
\* the glob match of a file name against a pattern; "*" matches any run of characters
fnmatch(name, pat) ==
    IF pat = <<>> THEN name = <<>>
    ELSE IF pat[1] = "*"
    THEN fnmatch(name, Tail(pat)) \/ (name # <<>> /\ fnmatch(Tail(name), pat))
    ELSE name # <<>> /\ name[1] = pat[1] /\ fnmatch(Tail(name), Tail(pat))

RECURSIVE lstrip(_, _)
\* s.lstrip(c)
lstrip(s, c) == IF s # <<>> /\ s[1] = c THEN lstrip(Tail(s), c) ELSE s

\* self.path.glob(f"K{zone}+*+*.key"): the stems of the matching .key files of d
glob_keyfiles(d, zone) ==
    {f \in DOMAIN d :
        fnmatch(f \o <<".key">>, <<"K">> \o zone \o <<"+", "*", "+", "*", ".key">>)}

\* DnsSec._iter_keyfiles: the matching files that have a .private beside them
_iter_keyfiles(d, zone) == {f \in glob_keyfiles(d, zone) : d[f].private}

\* the files _iter_keyfiles warns about
warned_keyfiles(d, zone) == {f \in glob_keyfiles(d, zone) : ~d[f].private}

RECURSIVE construct_all(_, _)
\* the loop of list_keys: kf = KeyFile(pk); result.append(kf)
construct_all(d, files) ==
    IF files = <<>> THEN [ok |-> TRUE, keys |-> <<>>]
    ELSE LET kf == OpenKeyFile(d, files[1])
         IN  IF ~kf.ok THEN kf
             ELSE LET rest == construct_all(d, Tail(files))
                  IN  IF ~rest.ok THEN rest
                      ELSE [ok |-> TRUE, keys |-> <<kf.key>> \o rest.keys]

\* the pattern zone of list_keys: zone = "*." + zone.lstrip(".") when recursive
list_zone(zone, recursive) ==
    IF recursive THEN <<"*", ".">> \o lstrip(zone, ".") ELSE zone

\* DnsSec.list_keys, for the order in which the directory yields the files
list_keys(d, files) ==
    LET result == construct_all(d, files)
    IN  IF ~result.ok THEN result
        ELSE [ok |-> TRUE, keys |-> SortedByKey(result.keys)]

\* --------------------------------------------------- external tools
\* str(None), what an f-string prints for a stream that was not captured
NoneText == <<"None">>

\* subprocess.run(args, cwd=self.path, stdout=subprocess.PIPE, text=True) for a
\* process that ends as run says: stdout is captured, stderr is not
subprocess_run(run) ==
    [returncode |-> run.returncode, stdout |-> run.stdout, stderr |-> NoneText]

RECURSIVE StripLines(_)
\* ret.stdout.strip().splitlines(keepends=False), stdout given as its lines
StripLines(out) ==
    IF out = <<>> THEN out
    ELSE IF out[1] = <<>> THEN StripLines(Tail(out))
    ELSE IF out[Len(out)] = <<>> THEN StripLines(DropLast(out))
    ELSE out

\* DnsSec._call
_call(args, run) ==
    LET r == subprocess_run(run)
    IN  IF r.returncode # 0
        THEN [ok |-> FALSE, err |-> "OSError", at |-> 121,
              returncode |-> r.returncode, text |-> r.stderr]
        ELSE [ok |-> TRUE, lines |-> StripLines(r.stdout)]

\* one external invocation, as it appears in the trace of an operation
Invocation(args, run) == [kind |-> "run", args |-> args, run |-> run]

\* one record construction, as it appears in the trace of an operation
Construction(stem) == [kind |-> "KeyFile", stem |-> stem]

settime_params_mutant(sched) ==
    (IF sched.publish # None THEN <<Word("-P"), date_str(sched.publish)>> ELSE <<>>)
    \o (IF sched.activate # None THEN <<Word("-A"), date_str(sched.activate)>> ELSE <<>>)
    \o (IF sched.inactivate # None THEN <<Word("-D"), date_str(sched.inactivate)>> ELSE <<>>)
    \o (IF sched.delete # None THEN <<Word("-D"), date_str(sched.delete)>> ELSE <<>>)

\* the list p of key_settime
settime_params(sched) ==
    (IF sched.publish # None THEN <<Word("-P"), date_str(sched.publish)>> ELSE <<>>)
    \o (IF sched.activate # None THEN <<Word("-A"), date_str(sched.activate)>> ELSE <<>>)
    \o (IF sched.inactivate # None THEN <<Word("-I"), date_str(sched.inactivate)>> ELSE <<>>)
    \o (IF sched.delete # None THEN <<Word("-D"), date_str(sched.delete)>> ELSE <<>>)

\* the comment keyword dnssec-settime rewrites for a flag
FlagKeyword(flag) ==
    CASE flag = Word("-P") -> "Publish:"
      [] flag = Word("-A") -> "Activate:"
      [] flag = Word("-I") -> "Inactive:"
      [] flag = Word("-D") -> "Delete:"

\* the lines of a key file with the date line of keyword set to token
SetDateLine(lines, keyword, token) ==
    LET new == <<Word(";"), Word(keyword), token, Word("(text)")>>
    IN  IF \E i \in 1 .. Len(lines) : InLine(lines[i], keyword)
        THEN [i \in 1 .. Len(lines) |-> IF InLine(lines[i], keyword) THEN new ELSE lines[i]]
        ELSE Append(lines, new)

RECURSIVE ApplyFlags(_, _)
ApplyFlags(lines, p) ==
    IF Len(p) < 2 THEN lines
    ELSE ApplyFlags(SetDateLine(lines, FlagKeyword(p[1]), p[2]), SubSeq(p, 3, Len(p)))

\* what a successful dnssec-settime <flags> <name> leaves in directory d
SettimeTool(d, args) ==
    LET name == args[Len(args)]
    IN  IF name \notin DOMAIN d THEN d
        ELSE [d EXCEPT ![name].lines = ApplyFlags(@, SubSeq(args, 2, Len(args) - 1))]

\* the outcome of DnsSec.key_settime(key, sched) in directory d when the tool,
\* if invoked, ends as run says: the result, the directory and the invocations
settime(d, k, sched, run) ==
    LET p == settime_params(sched)
        args == <<Word("dnssec-settime")>> \o p \o <<k.name>>
    IN  IF p = <<>> THEN [ret |-> [ok |-> TRUE], disk |-> d, calls |-> <<>>]
        ELSE [ret |-> LET c == _call(args, run) IN IF c.ok THEN [ok |-> TRUE] ELSE c,
              disk |-> IF run.returncode = 0 THEN SettimeTool(d, args) ELSE d,
              calls |-> <<Invocation(args, run)>>]

\* what dnssec-keygen leaves in directory d when it ends as run says
KeygenTool(d, run) ==
    IF run.creates = <<>> THEN d
    ELSE (run.creates :> [private |-> TRUE, lines |-> run.content]) @@ d

gentemplate_mutant(d, template, sched, genrun, setrun) ==
    LET args == <<Word("dnssec-keygen"), Word("-S"), template.name, Word("-i"), Word("0")>>
        d1 == KeygenTool(d, genrun)
        pipe == _call(args, genrun)
        new_file == pipe.lines[Len(pipe.lines)]
        new_key == OpenKeyFile(d1, new_file)
        s == settime(d1, new_key.key, sched, setrun)
    IN  IF ~pipe.ok THEN [ret |-> pipe, disk |-> d1, calls |-> <<Invocation(args, genrun)>>]
        ELSE IF pipe.lines = <<>>
        THEN [ret |-> Raise("IndexError", 161), disk |-> d1,
              calls |-> <<Invocation(args, genrun)>>]
        ELSE IF ~new_key.ok
        THEN [ret |-> new_key, disk |-> d1,
              calls |-> <<Invocation(args, genrun), Construction(new_file)>>]
        ELSE [ret |-> IF s.ret.ok THEN OpenKeyFile(s.disk, new_file) ELSE s.ret,
              disk |-> s.disk,
              calls |-> <<Invocation(args, genrun), Construction(new_file)>> \o s.calls]

\* the outcome of DnsSec.key_gentemplate(template, sched) in directory d when the
\* two tools end as genrun and setrun say
gentemplate(d, template, sched, genrun, setrun) ==
    LET args == <<Word("dnssec-keygen"), Word("-S"), template.name, Word("-i"), Word("0")>>
        d1 == KeygenTool(d, genrun)
        pipe == _call(args, genrun)
        new_file == pipe.lines[Len(pipe.lines)]
        new_key == OpenKeyFile(d1, new_file)
        s == settime(d1, new_key.key, sched, setrun)
    IN  IF ~pipe.ok THEN [ret |-> pipe, disk |-> d1, calls |-> <<Invocation(args, genrun)>>]
        ELSE IF pipe.lines = <<>>
        THEN [ret |-> Raise("IndexError", 161), disk |-> d1,
              calls |-> <<Invocation(args, genrun)>>]
        ELSE IF ~new_key.ok
        THEN [ret |-> new_key, disk |-> d1,
              calls |-> <<Invocation(args, genrun), Construction(new_file)>>]
        ELSE [ret |-> IF s.ret.ok THEN new_key ELSE s.ret,
              disk |-> s.disk,
              calls |-> <<Invocation(args, genrun), Construction(new_file)>> \o s.calls]

\* ------------------------------------------------------ sample text
aZone == <<"a", ".">>
bZone == <<"b", ".">>
subZone == <<"s", ".", "a", ".">>

\* K<zone>+<algo>+<keyid>
Stem(zone, algo, keyid) == <<"K">> \o zone \o <<"+">> \o algo \o <<"+">> \o keyid

aStem == Stem(aZone, <<"0", "1", "3">>, <<"0", "0", "0", "0", "2">>)

\* "; <Field>: <YYYYMMDDHHMMSS> (...)"
DateLine(field, token) == <<Word(";"), Word(field), token, Word("(text)")>>

\* "; This is a <purpose> key, keyid <id>, for <zone>"
DescLine(purpose, id, zone) ==
    <<Word(";"), Word("This"), Word("is"), Word("a"), Word(purpose), Word("key,"), Word("keyid"),
      id \o <<",">>, Word("for"), zone>>

\* "<zone> IN DNSKEY 256 3 13 <base64>"
RRLine(zone) == <<zone, Word("IN"), Word("DNSKEY"), Word("256"), Word("3"), Word("13"), Word("base64")>>

\* ----------------------------------------------------------------
\* Specification SpecKey: one record, queried at reference times
\* ----------------------------------------------------------------
ParsedTimes == {None} \cup {s * Res : s \in Seconds}

SampleKeys ==
    [name : {aStem}, zone : {aZone}, algo : {13}, keyid : {2}, type : {"ZSK"},
     d_create : ParsedTimes, d_publish : ParsedTimes, d_active : ParsedTimes,
     d_inactive : ParsedTimes, d_delete : ParsedTimes]

InitKey ==
    /\ key \in SampleKeys
    /\ ref = 0
    /\ op = [name |-> "init"]
    /\ ret = None
    /\ disk = <<>>
    /\ calls = <<>>
    /\ steps = 0

CallState ==
    \E t \in Ticks :
        /\ ref' = t
        /\ ret' = state(key, t)
        /\ op' = [name |-> "state"]
        /\ UNCHANGED <<disk, key, calls, steps>>

CallNextChange ==
    \E t \in Ticks :
        /\ ref' = t
        /\ ret' = next_change(key, t)
        /\ op' = [name |-> "next_change"]
        /\ UNCHANGED <<disk, key, calls, steps>>

NextKey == CallState \/ CallNextChange

SpecKey == InitKey /\ [][NextKey]_vars

\* the schedule fields of a record, in lifecycle order, created left out
Schedule(k) == <<k.d_publish, k.d_active, k.d_inactive, k.d_delete>>

\* every two set schedule fields are in non-decreasing order
Consistent(k) ==
    \A i \in 1 .. 4 : \A j \in 1 .. 4 :
        (i < j /\ Schedule(k)[i] # None /\ Schedule(k)[j] # None)
            => Schedule(k)[i] <= Schedule(k)[j]

\* C1: state(t) is the most advanced lifecycle stage reached at t: DEL exactly when
\* deleted is set and <= t; INAC exactly when that fails and inactivated is set and
\* <= t; then ACT, then PUB likewise; FUT exactly when none of the four is reached
\* and created is set and > t; the empty state in every other case.
C1_StatePriorityChain ==
    op.name = "state" =>
        LET del == Reached(key.d_delete, ref)
            inac == Reached(key.d_inactive, ref)
            act == Reached(key.d_active, ref)
            pub == Reached(key.d_publish, ref)
            fut == key.d_create # None /\ key.d_create > ref
        IN  /\ (ret = "DEL") <=> del
            /\ (ret = "INAC") <=> (inac /\ ~del)
            /\ (ret = "ACT") <=> (act /\ ~inac /\ ~del)
            /\ (ret = "PUB") <=> (pub /\ ~act /\ ~inac /\ ~del)
            /\ (ret = "FUT") <=> (fut /\ ~pub /\ ~act /\ ~inac /\ ~del)
            /\ (ret = "") <=> (~fut /\ ~pub /\ ~act /\ ~inac /\ ~del)

\* a record with published and activated both reached, out of order, reports ACT
C1_Witness ==
    /\ op.name = "state"
    /\ Reached(key.d_publish, ref) /\ Reached(key.d_active, ref)
    /\ key.d_active < key.d_publish
    /\ key.d_inactive # None /\ key.d_inactive > ref
    /\ ret = "ACT"

\* C2: on a consistently ordered schedule next_change(t) is the smallest set
\* timestamp among published, activated, inactivated, deleted that is strictly
\* greater than t, and None when no set timestamp is strictly greater than t.
C2_NextChangeConsistent ==
    (op.name = "next_change" /\ Consistent(key)) =>
        LET later == {x \in SeqRange(Schedule(key)) : x # None /\ x > ref}
        IN  ret = IF later = {} THEN None ELSE Min(later)

\* a consistent schedule with one timestamp at the reference and two after it
C2_Witness ==
    /\ op.name = "next_change"
    /\ Consistent(key)
    /\ key.d_publish = ref
    /\ key.d_active = None
    /\ key.d_inactive # None /\ key.d_inactive > ref
    /\ key.d_delete # None /\ key.d_delete > key.d_inactive
    /\ ret = key.d_inactive

\* C3: on a schedule whose set timestamps are not non-decreasing next_change(t)
\* returns the inconsistency value for every t, whatever created is.
C3_NextChangeInconsistent ==
    (op.name = "next_change" /\ ~Consistent(key)) => ret = InconsistentDates

\* publish > inactivate with activate unset, created before everything
C3_Witness ==
    /\ op.name = "next_change"
    /\ key.d_active = None /\ key.d_delete = None
    /\ key.d_publish # None /\ key.d_inactive # None
    /\ key.d_publish > key.d_inactive
    /\ key.d_create # None /\ key.d_create < key.d_inactive
    /\ ret = InconsistentDates

Rank(s) ==
    CASE s = "DEL" -> 4
      [] s = "INAC" -> 3
      [] s = "ACT" -> 2
      [] s = "PUB" -> 1
      [] OTHER -> 0

\* C10: between two state queries of the same record, the later one at a reference
\* time no earlier than the first, the rank of the state does not decrease
\* ((empty or FUT) < PUB < ACT < INAC < DEL); so DEL stays DEL.
C10_StateNeverRegresses ==
    [][(op.name = "state" /\ op'.name = "state" /\ ref <= ref')
            => Rank(ret) <= Rank(ret')]_vars

\* an inconsistent record (deleted before activated) queried after both
C10_Witness ==
    /\ op.name = "state"
    /\ key.d_delete # None /\ key.d_active # None
    /\ key.d_delete < key.d_active
    /\ key.d_active <= ref
    /\ ret = "DEL"

\* ----------------------------------------------------------------
\* Specification SpecParse: constructing a record from one key file
\* ----------------------------------------------------------------
Id2 == <<"0", "0", "0", "0", "2">>
Id3 == <<"0", "0", "0", "0", "3">>
Algo13 == <<"0", "1", "3">>
Algo8 == <<"0", "0", "8">>

ParseStems ==
    {Stem(aZone, Algo13, Id2), Stem(aZone, Algo13, Id3), Stem(bZone, Algo8, Id2),
     <<"K">> \o aZone \o <<"+">> \o Algo13,
     Stem(aZone, <<"x">>, Id2)}

ParseLines ==
    {RRLine(aZone),
     DateLine("Created:", date_str(1 * Res)),
     DateLine("Publish:", <<"2", "0", "2", "4">>),
     DateLine("Activate:", date_str(2 * Res)),
     DescLine("zone-signing", <<"2">>, aZone),
     DescLine("key-signing", <<"2">>, aZone),
     DescLine("zone-signing", <<"3">>, aZone),
     DescLine("zone-signing", <<"2">>, bZone),
     DescLine("foo-signing", <<"3">>, aZone)}

RECURSIVE SeqsUpTo(_, _)
SeqsUpTo(S, n) ==
    IF n = 0 THEN {<<>>}
    ELSE LET shorter == SeqsUpTo(S, n - 1)
         IN  shorter \cup {Append(q, x) : q \in shorter, x \in S}

InitParse ==
    /\ \E stem \in ParseStems : \E lines \in SeqsUpTo(ParseLines, MaxLines) :
           disk = (stem :> [private |-> TRUE, lines |-> lines])
    /\ key = None
    /\ ref = 0
    /\ op = [name |-> "init"]
    /\ ret = None
    /\ calls = <<>>
    /\ steps = 0

Construct ==
    \E stem \in DOMAIN disk :
        /\ op' = [name |-> "KeyFile", stem |-> stem]
        /\ ret' = OpenKeyFile(disk, stem)
        /\ UNCHANGED <<disk, key, ref, calls, steps>>

NextParse == Construct

SpecParse == InitParse /\ [][NextParse]_vars

\* what each well-formed sample filename encodes
StemIdentity(stem) ==
    CASE stem = Stem(aZone, Algo13, Id2) -> [zone |-> aZone, algo |-> 13, keyid |-> 2]
      [] stem = Stem(aZone, Algo13, Id3) -> [zone |-> aZone, algo |-> 13, keyid |-> 3]
      [] stem = Stem(bZone, Algo8, Id2) -> [zone |-> bZone, algo |-> 8, keyid |-> 2]

WellFormedStems ==
    {Stem(aZone, Algo13, Id2), Stem(aZone, Algo13, Id3), Stem(bZone, Algo8, Id2)}

\* what each sample descriptive line embeds; <<>> for the other lines
Embedded(line) ==
    CASE line = DescLine("zone-signing", <<"2">>, aZone) -> <<"ZSK", 2, aZone>>
      [] line = DescLine("key-signing", <<"2">>, aZone) -> <<"KSK", 2, aZone>>
      [] line = DescLine("zone-signing", <<"3">>, aZone) -> <<"ZSK", 3, aZone>>
      [] line = DescLine("zone-signing", <<"2">>, bZone) -> <<"ZSK", 2, bZone>>
      [] line = DescLine("foo-signing", <<"3">>, aZone) -> <<"", 3, aZone>>
      [] OTHER -> <<>>

IsDesc(line) == Embedded(line) # <<>>

Mismatch(stem, line) ==
    /\ IsDesc(line)
    /\ \/ Embedded(line)[2] # StemIdentity(stem).keyid
       \/ Embedded(line)[3] # StemIdentity(stem).zone

MalformedDate(line) == line = DateLine("Publish:", <<"2", "0", "2", "4">>)

IdentityMismatchError(r) == ~r.ok /\ r.err = "ValueError" /\ r.at \in {62, 64}

\* C5 as stated: a file with a mismatching descriptive line fails with the
\* identity-mismatch error; a file whose descriptive lines all match, with a
\* recognised purpose word, constructs with the filename's identity.
C5_AsStated ==
    (op.name = "KeyFile" /\ op.stem \in WellFormedStems) =>
        LET lines == disk[op.stem].lines
            descs == {i \in 1 .. Len(lines) : IsDesc(lines[i])}
        IN  /\ (\E i \in descs : Mismatch(op.stem, lines[i])) => IdentityMismatchError(ret)
            /\ (descs # {} /\ \A i \in descs :
                    ~Mismatch(op.stem, lines[i]) /\ Embedded(lines[i])[1] # "")
                => (ret.ok /\ ret.key.zone = StemIdentity(op.stem).zone
                           /\ ret.key.algo = StemIdentity(op.stem).algo
                           /\ ret.key.keyid = StemIdentity(op.stem).keyid)

\* C5 amended: a file with a mismatching descriptive line never yields a record,
\* and the failure is the identity-mismatch error when the first such line has a
\* recognised purpose word and every line before it reads without error; a file
\* whose descriptive lines all match with a recognised purpose word, and whose
\* date lines are all well-formed, constructs with the filename's identity.
C5_IdentityCheck ==
    (op.name = "KeyFile" /\ op.stem \in WellFormedStems) =>
        LET lines == disk[op.stem].lines
            descs == {i \in 1 .. Len(lines) : IsDesc(lines[i])}
            bad == {i \in descs : Mismatch(op.stem, lines[i])}
            first == Min(bad)
        IN  /\ bad # {} => ~ret.ok
            /\ (/\ bad # {}
                /\ Embedded(lines[first])[1] # ""
                /\ \A j \in 1 .. first - 1 :
                       ~MalformedDate(lines[j]) /\ (IsDesc(lines[j]) => Embedded(lines[j])[1] # ""))
                => IdentityMismatchError(ret)
            /\ (/\ descs # {}
                /\ \A i \in descs : ~Mismatch(op.stem, lines[i]) /\ Embedded(lines[i])[1] # ""
                /\ \A j \in 1 .. Len(lines) : ~MalformedDate(lines[j]))
                => (ret.ok /\ ret.key.zone = StemIdentity(op.stem).zone
                           /\ ret.key.algo = StemIdentity(op.stem).algo
                           /\ ret.key.keyid = StemIdentity(op.stem).keyid)

\* a well-formed date line and a matching descriptive line construct the record
C5_WitnessOk ==
    /\ op.name = "KeyFile"
    /\ op.stem = Stem(bZone, Algo8, Id2)
    /\ disk[op.stem].lines = <<DateLine("Created:", date_str(1 * Res)),
                               DescLine("zone-signing", <<"2">>, bZone)>>
    /\ ret.ok /\ ret.key.type = "ZSK" /\ ret.key.d_create = 1 * Res

\* a well-formed line followed by a descriptive line with the wrong key tag
C5_Witness ==
    /\ op.name = "KeyFile"
    /\ op.stem = Stem(aZone, Algo13, Id2)
    /\ disk[op.stem].lines = <<DateLine("Created:", date_str(1 * Res)),
                               DescLine("zone-signing", <<"3">>, aZone)>>
    /\ IdentityMismatchError(ret) /\ ret.at = 62

\* ----------------------------------------------------------------
\* Specification SpecList: listing the keys of a directory
\* ----------------------------------------------------------------
Id1 == <<"0", "0", "0", "0", "1">>
Id5 == <<"0", "0", "0", "0", "5">>
Id10 == <<"0", "0", "0", "1", "0">>

\* the key files a directory may hold, with what each one holds
ListFiles ==
    (Stem(aZone, Algo13, Id2) :> <<DescLine("zone-signing", <<"2">>, aZone), RRLine(aZone)>>)
    @@ (Stem(aZone, Algo13, Id10) :> <<DescLine("zone-signing", <<"1", "0">>, aZone)>>)
    @@ (Stem(aZone, Algo8, Id5) :> <<DescLine("key-signing", <<"5">>, aZone)>>)
    @@ (Stem(aZone, Algo13, Id3) :> <<DescLine("zone-signing", <<"4">>, aZone)>>)
    @@ (Stem(subZone, Algo13, Id1) :> <<DescLine("zone-signing", <<"1">>, subZone)>>)
    @@ (Stem(bZone, Algo13, Id1) :> <<RRLine(bZone)>>)

\* the zone arguments of the listings
ListZones == {aZone, bZone, subZone, <<".">> \o aZone}

\* the orders in which a directory scan may yield the files of S
Orders(S) ==
    {q \in [1 .. Cardinality(S) -> S] : \A i, j \in 1 .. Cardinality(S) : q[i] = q[j] => i = j}

InitList ==
    /\ \E present \in SUBSET DOMAIN ListFiles : \E paired \in SUBSET present :
           disk = [f \in present |-> [private |-> f \in paired, lines |-> ListFiles[f]]]
    /\ key = None
    /\ ref = 0
    /\ op = [name |-> "init"]
    /\ ret = None
    /\ calls = <<>>
    /\ steps = 0

ListKeys ==
    \E zone \in ListZones : \E recursive \in BOOLEAN :
        \E files \in Orders(_iter_keyfiles(disk, list_zone(zone, recursive))) :
            /\ op' = [name |-> "list_keys", zone |-> zone, recursive |-> recursive,
                      warned |-> warned_keyfiles(disk, list_zone(zone, recursive))]
            /\ ret' = list_keys(disk, files)
            /\ UNCHANGED <<disk, key, ref, calls, steps>>

NextList == ListKeys

SpecList == InitList /\ [][NextList]_vars

\* the zone, key type, algorithm and key tag of each listed file, read off its name and text
FileIdentity(f) ==
    CASE f = Stem(aZone, Algo13, Id2) -> [zone |-> aZone, type |-> "ZSK", algo |-> 13, keyid |-> 2]
      [] f = Stem(aZone, Algo13, Id10) -> [zone |-> aZone, type |-> "ZSK", algo |-> 13, keyid |-> 10]
      [] f = Stem(aZone, Algo8, Id5) -> [zone |-> aZone, type |-> "KSK", algo |-> 8, keyid |-> 5]
      [] f = Stem(aZone, Algo13, Id3) -> [zone |-> aZone, type |-> "ZSK", algo |-> 13, keyid |-> 3]
      [] f = Stem(subZone, Algo13, Id1) -> [zone |-> subZone, type |-> "ZSK", algo |-> 13, keyid |-> 1]
      [] f = Stem(bZone, Algo13, Id1) -> [zone |-> bZone, type |-> "", algo |-> 13, keyid |-> 1]

\* the one listed file whose text contradicts its name
Corrupt(f) == f = Stem(aZone, Algo13, Id3)

\* zone z is a proper subdomain of zone y
Subdomain(z, y) ==
    /\ Len(z) > Len(y) + 1
    /\ SubSeq(z, Len(z) - Len(y) + 1, Len(z)) = y
    /\ z[Len(z) - Len(y)] = "."

\* (zone, keyType, algorithm, keyId) of x is at most that of y
TupleLeq(x, y) ==
    LET tx == TypeChars(x.type)
        ty == TypeChars(y.type)
    IN  \/ StrLess(x.zone, y.zone)
        \/ /\ x.zone = y.zone
           /\ \/ StrLess(tx, ty)
              \/ /\ tx = ty
                 /\ \/ x.algo < y.algo
                    \/ x.algo = y.algo /\ x.keyid <= y.keyid

C8_RecursiveIncludesZone ==
    (op.name = "list_keys" /\ op.recursive /\ ret.ok) =>
        LET own == {f \in DOMAIN disk : FileIdentity(f).zone = op.zone /\ disk[f].private}
            sub == {f \in DOMAIN disk :
                       Subdomain(FileIdentity(f).zone, op.zone) /\ disk[f].private}
        IN  own \cup sub \subseteq {ret.keys[i].name : i \in 1 .. Len(ret.keys)}

\* what the recursive listing does hold: the paired keys of the subdomains alone
C8_RecursiveSubdomainsOnly ==
    (op.name = "list_keys" /\ op.recursive /\ ret.ok) =>
        {ret.keys[i].name : i \in 1 .. Len(ret.keys)}
            = {f \in DOMAIN disk :
                  Subdomain(FileIdentity(f).zone, lstrip(op.zone, ".")) /\ disk[f].private}

\* ----------------------------------------------------------------
\* Specification SpecWrite: schedule writes and successor creation
\* ----------------------------------------------------------------
\* the template key of the directory
TemplateStem == Stem(aZone, Algo13, Id2)

TemplateLines ==
    <<DateLine("Created:", date_str(0)),
      DateLine("Publish:", date_str(0)),
      DateLine("Activate:", date_str(1 * Res)),
      DateLine("Inactive:", date_str(2 * Res)),
      DescLine("zone-signing", <<"2">>, aZone),
      RRLine(aZone)>>

\* the name dnssec-keygen gives the n-th further key of the directory
FreshStem(n) == Stem(aZone, Algo13, PadLeft(Digits(6 + n), KeyIdWidth, "0"))

\* what dnssec-keygen -S writes: published and active when the template retires
GeneratedLines(n) ==
    <<DateLine("Created:", date_str(1 * Res)),
      DateLine("Publish:", date_str(2 * Res)),
      DateLine("Activate:", date_str(2 * Res)),
      DescLine("zone-signing", Digits(6 + n), aZone),
      RRLine(aZone)>>

\* the schedules of the callers: each timestamp absent or supplied; the supplied
\* publish time falls inside the second the generated key is published in
Schedules ==
    [publish : {None, 2 * Res + (Res - 1)}, activate : {None, 3 * Res},
     inactivate : {None, 4 * Res}, delete : {None, 5 * Res}]

\* how dnssec-settime may end
SettimeRuns ==
    {[returncode |-> 0, stdout |-> <<>>, stderr |-> <<>>],
     [returncode |-> 1, stdout |-> <<>>, stderr |-> <<"dnssec-settime: fatal">>]}

\* how dnssec-keygen may end in a directory that holds n keys: with the new
\* key's name on the last line; with an error; without output; with a last line
\* that names no key
KeygenRuns(n) ==
    {[returncode |-> 0, stdout |-> <<Word("Generating key pair."), FreshStem(n), <<>>>>,
      stderr |-> <<>>, creates |-> FreshStem(n), content |-> GeneratedLines(n)],
     [returncode |-> 1, stdout |-> <<>>, stderr |-> <<"dnssec-keygen: fatal">>,
      creates |-> <<>>, content |-> <<>>],
     [returncode |-> 0, stdout |-> <<>>, stderr |-> <<>>,
      creates |-> <<>>, content |-> <<>>],
     [returncode |-> 0, stdout |-> <<FreshStem(n), Word("done")>>, stderr |-> <<>>,
      creates |-> FreshStem(n), content |-> GeneratedLines(n)]}

InitWrite ==
    /\ disk = (TemplateStem :> [private |-> TRUE, lines |-> TemplateLines])
    /\ key = KeyFile(TemplateStem, TemplateLines).key
    /\ ref = 0
    /\ op = [name |-> "init"]
    /\ ret = None
    /\ calls = <<>>
    /\ steps = 0

\* kf = KeyFile(path): a caller reads a key of the directory (again)
load_key ==
    /\ steps < MaxOps
    /\ \E stem \in DOMAIN disk :
           LET kf == OpenKeyFile(disk, stem)
           IN  /\ kf.ok
               /\ key' = kf.key
               /\ ret' = kf
               /\ op' = [name |-> "KeyFile", stem |-> stem]
    /\ calls' = <<>>
    /\ steps' = steps + 1
    /\ UNCHANGED <<disk, ref>>

\* DnsSec.key_settime(key, publish=, activate=, inactivate=, delete=)
key_settime ==
    /\ steps < MaxOps
    /\ \E sched \in Schedules : \E run \in SettimeRuns :
           LET r == settime(disk, key, sched, run)
           IN  /\ disk' = r.disk
               /\ ret' = r.ret
               /\ calls' = r.calls
               /\ op' = [name |-> "key_settime", key |-> key, sched |-> sched]
    /\ steps' = steps + 1
    /\ UNCHANGED <<key, ref>>

\* DnsSec.key_gentemplate(template, publish, activate, inactivate, delete)
key_gentemplate ==
    /\ steps < MaxOps
    /\ \E sched \in Schedules : \E genrun \in KeygenRuns(Cardinality(DOMAIN disk)) :
           \E setrun \in SettimeRuns :
               LET r == gentemplate(disk, key, sched, genrun, setrun)
               IN  /\ disk' = r.disk
                   /\ ret' = r.ret
                   /\ calls' = r.calls
                   /\ op' = [name |-> "key_gentemplate", key |-> key, sched |-> sched,
                             before |-> KeygenTool(disk, genrun)]
    /\ steps' = steps + 1
    /\ UNCHANGED <<key, ref>>

NextWrite == load_key \/ key_settime \/ key_gentemplate

SpecWrite == InitWrite /\ [][NextWrite]_vars

IsRun(c, tool) == c.kind = "run" /\ c.args[1] = Word(tool)

\* the last line of a tool's output that is not blank
LastLine(out) == out[CHOOSE i \in 1 .. Len(out) :
                        out[i] # <<>> /\ \A j \in (i + 1) .. Len(out) : out[j] = <<>>]

ScheduleFields == {"publish", "activate", "inactivate", "delete"}

FlagOf(f) ==
    CASE f = "publish" -> Word("-P")
      [] f = "activate" -> Word("-A")
      [] f = "inactivate" -> Word("-I")
      [] f = "delete" -> Word("-D")

\* the field of a record that a field of a schedule sets
RecordField(f) ==
    CASE f = "publish" -> "d_publish"
      [] f = "activate" -> "d_active"
      [] f = "inactivate" -> "d_inactive"
      [] f = "delete" -> "d_delete"

C6_ToolErrorCarriesStderr ==
    op.name \in {"key_settime", "key_gentemplate"} =>
        \A i \in 1 .. Len(calls) :
            (calls[i].kind = "run" /\ calls[i].run.returncode # 0) =>
                /\ ~ret.ok /\ ret.err = "OSError"
                /\ ret.text = calls[i].run.stderr
                /\ i = Len(calls)

\* what the code does instead: the error carries the text of None
ToolErrorCarriesNone ==
    op.name \in {"key_settime", "key_gentemplate"} =>
        \A i \in 1 .. Len(calls) :
            (calls[i].kind = "run" /\ calls[i].run.returncode # 0) =>
                /\ ~ret.ok /\ ret.err = "OSError"
                /\ ret.text = NoneText
                /\ i = Len(calls)

\* the record of the named key as a fresh read of the directory gives it
OnDisk(stem) == OpenKeyFile(disk, stem).key

\* the timestamps dnssec-keygen gave the new key
GeneratedTimes(k) ==
    /\ k.d_create = 1 * Res
    /\ k.d_publish = 2 * Res
    /\ k.d_active = 2 * Res
    /\ k.d_inactive = None
    /\ k.d_delete = None

\* a datetime as the 14-character format keeps it: whole seconds
WholeSeconds(t) == (t \div Res) * Res

\* C9 as stated: key_settime leaves the record it was given unchanged; the record
\* key_gentemplate returns holds the generated timestamps, and differs from the
\* schedule on disk whenever a supplied timestamp differs from the generated one.
C9_AsStated ==
    /\ op.name = "key_settime" => key = op.key
    /\ (op.name = "key_gentemplate" /\ ret.ok) =>
           /\ GeneratedTimes(ret.key)
           /\ (\E f \in ScheduleFields :
                   op.sched[f] # None /\ op.sched[f] # ret.key[RecordField(f)])
               => Schedule(ret.key) # Schedule(OnDisk(ret.key.name))

\* C9 amended: key_settime leaves the record it was given unchanged, whatever
\* was written; the record key_gentemplate returns holds the generated
\* timestamps, and differs from the schedule on disk exactly when a supplied
\* timestamp, cut to whole seconds, differs from the generated one.
C9_RecordsNotUpdated ==
    /\ op.name = "key_settime" => key = op.key
    /\ (op.name = "key_gentemplate" /\ ret.ok) =>
           /\ GeneratedTimes(ret.key)
           /\ (\E f \in ScheduleFields :
                   op.sched[f] # None
                   /\ WholeSeconds(op.sched[f]) # ret.key[RecordField(f)])
               <=> Schedule(ret.key) # Schedule(OnDisk(ret.key.name))

\* a successor returned with the generated activation time while the directory
\* holds the supplied one
C9_Witness ==
    /\ op.name = "key_gentemplate"
    /\ ret.ok
    /\ op.sched.activate = 3 * Res
    /\ ret.key.d_active = 2 * Res
    /\ OnDisk(ret.key.name).d_active = 3 * Res

\* a record that a schedule write has left behind the directory
StaleAfterSettime ==
    /\ op.name = "key_settime"
    /\ ret.ok
    /\ key = op.key
    /\ Schedule(key) # Schedule(OnDisk(key.name))

====
